---- MODULE Spec2Model ----
(***************************************************************************)
(* Inventory tracker (src/app.py): the product store with its CRUD,        *)
(* stock-adjust and low-stock handlers, the CSV export with its quick      *)
(* check against the last export, and the positional row diff.             *)
(*                                                                         *)
(* The store is the sequence of product rows in the order Product.query    *)
(* .all() yields them: the table's rowid order.  A new row gets the rowid  *)
(* max+1 and so goes to the end; a product_id is modelled by the row's     *)
(* position at the time of the request.                                    *)
(***************************************************************************)
EXTENDS Integers, Sequences, FiniteSets, TLC

VARIABLES
    products,   \* the Product table, in iteration order
    resp,       \* what the latest request was answered: [kind, body]
    fs,         \* the working directory: file name -> <<>> (absent) or <<lines>>
    exports,    \* the exports directory: file name -> lines
    pc,         \* per request thread: where it is in export_csv
    snap,       \* per request thread: the rows Product.query.all() returned
    fd,         \* per request thread: the open temporary file [target, off]
    cmp,        \* per request thread: comparison_result
    opsSince,   \* history: a product was committed since the last successful export
    lastGood    \* history: <<>> or <<the rows the last successful export read>>

\* ------------------------------------------------------------------ bounds
MaxStock == 2       \* largest stock a form submits, and the cap on adjust
MaxAdj == 2         \* largest |delta| the adjust form submits

\* ------------------------------------------------------- program constants
DefaultStock == 0
DefaultThreshold == 5
DefaultPrice == 0

\* ----------------------------------------------------------- str() and int()
Digits == <<"0", "1", "2", "3", "4", "5", "6", "7", "8", "9">>

RECURSIVE NatStr(_)
NatStr(n) == IF n < 10 THEN Digits[n + 1] ELSE NatStr(n \div 10) \o Digits[(n % 10) + 1]

\* str(n) of an int
IntStr(n) == IF n < 0 THEN "-" \o NatStr(0 - n) ELSE NatStr(n)

\* str(x) of a float with a whole value: 2.0 prints as "2.0"
FloatStr(x) == IntStr(x) \o ".0"

\* the integers the forms of this model can spell
Spellable == (0 - (MaxStock + MaxAdj + 1)) .. (MaxStock + MaxAdj + 1)

Spelling == [n \in Spellable |-> IntStr(n)]

\* int(s) of a decimal string
ParseInt(s) == CHOOSE n \in Spellable : Spelling[n] = s

\* float(s) of a decimal string without a fraction part
ParseFloat(s) == ParseInt(s)

\* ------------------------------------------------------------- form inputs
Skus == {"A", "B"}
Names == {"n1"}
Descriptions == {"d"}
PriceInputs == {"", "2"}
StockInputs == {""} \cup {IntStr(n) : n \in (0 - 1) .. MaxStock}
ThresholdInputs == {"", "1"}
AdjInputs == {""} \cup {IntStr(n) : n \in (0 - MaxAdj) .. MaxAdj}

\* int(request.form.get(f) or d): a blank field is falsy and takes the default
FormInt(v, d) == IF v = "" THEN d ELSE ParseInt(v)

\* float(request.form.get(f) or 0)
FormFloat(v, d) == IF v = "" THEN d ELSE ParseFloat(v)

Range(s) == {s[i] : i \in DOMAIN s}

\* the unique constraint on Product.sku
UniqueSkus(ps) == \A i, j \in DOMAIN ps : ps[i].sku = ps[j].sku => i = j

Response(kind, body) == [kind |-> kind, body |-> body]

\* what a handler that only talks to the database leaves alone
FilesUntouched == UNCHANGED <<fs, exports, pc, snap, fd, cmp, lastGood>>

\* ------------------------------------------------------------ the session
\* db.session.commit(): the staged rows become the table when they satisfy
\* the unique constraint; otherwise IntegrityError is raised.
CommitOk(staged) == UniqueSkus(staged)

RollbackKeepsStaged(committed, staged) == staged

\* db.session.rollback(): the staged changes are discarded
Rollback(committed, staged) == committed

\* ---------------------------------------------------------------- add_product
NewProduct(sku, name, desc, price, stock, thresh) ==
    [sku |-> sku, name |-> name, description |-> desc,
     price |-> FormFloat(price, DefaultPrice),
     stock |-> FormInt(stock, DefaultStock),
     reorder_threshold |-> FormInt(thresh, DefaultThreshold)]

AddProduct(sku, name, desc, price, stock, thresh) ==
    LET staged == Append(products, NewProduct(sku, name, desc, price, stock, thresh))
    IN  IF CommitOk(staged)
        THEN /\ products' = staged
             /\ resp' = Response("added", <<Len(staged)>>)
             /\ opsSince' = TRUE
             /\ FilesUntouched
        ELSE /\ products' = Rollback(products, staged)
             /\ resp' = Response("duplicate_sku", <<"add", sku>>)
             /\ UNCHANGED opsSince
             /\ FilesUntouched

\* --------------------------------------------------------------- edit_product
EditProduct(id, sku, name, desc, price, stock, thresh) ==
    /\ id \in DOMAIN products
    /\ LET staged == [products EXCEPT
                        ![id] = NewProduct(sku, name, desc, price, stock, thresh)]
       IN  IF CommitOk(staged)
           THEN /\ products' = staged
                /\ resp' = Response("updated", <<id>>)
                /\ opsSince' = TRUE
                /\ FilesUntouched
           ELSE /\ products' = Rollback(products, staged)
                /\ resp' = Response("duplicate_sku", <<"edit", sku>>)
                /\ UNCHANGED opsSince
                /\ FilesUntouched

\* ------------------------------------------------------------- delete_product
RemoveAt(s, i) == SubSeq(s, 1, i - 1) \o SubSeq(s, i + 1, Len(s))

DeleteProduct(id) ==
    /\ id \in DOMAIN products
    /\ products' = RemoveAt(products, id)
    /\ resp' = Response("deleted", <<id>>)
    /\ opsSince' = TRUE
    /\ FilesUntouched

\* --------------------------------------------------------------- adjust_stock
Max(a, b) == IF a >= b THEN a ELSE b

NewStockUnclamped(stock, adj) == stock + adj

\* p.stock = max(0, p.stock + adj)
NewStock(stock, adj) == Max(0, stock + adj)

\* body: the product, the delta, and the stock the handler loaded
AdjustStock(id, adjust) ==
    /\ id \in DOMAIN products
    /\ LET adj == FormInt(adjust, 0)
           old == products[id].stock
       IN  /\ NewStock(old, adj) <= MaxStock
           /\ products' = [products EXCEPT ![id].stock = NewStock(old, adj)]
           /\ resp' = Response("adjusted", <<id, adj, old>>)
           /\ opsSince' = TRUE
           /\ FilesUntouched

\* ------------------------------------------------- get_or_404 on a missing id
NotFound ==
    /\ resp' = Response("not_found", <<Len(products) + 1>>)
    /\ UNCHANGED <<products, opsSince>>
    /\ FilesUntouched

\* ------------------------------------------------------------------ low_stock
LowFilterStrict(p) == p.stock < p.reorder_threshold

\* Product.stock <= Product.reorder_threshold
LowFilter(p) == p.stock <= p.reorder_threshold

\* order_by(Product.stock.asc()): SQL leaves the order of ties open
OrderedByStock(s) == \A i, j \in DOMAIN s : i < j => s[i].stock <= s[j].stock

Orderings(S) ==
    {s \in [1 .. Cardinality(S) -> S] : Range(s) = S /\ OrderedByStock(s)}

LowStock ==
    /\ \E items \in Orderings({p \in Range(products) : LowFilter(p)}) :
          resp' = Response("low_stock", items)
    /\ UNCHANGED <<products, opsSince>>
    /\ FilesUntouched

\* ------------------------------------------------------------------ files
LAST_CSV_PATH == "last_inventory.csv"
csv_filename == "inventory.csv"
temp_filename == "inventory_temp.csv"
FileNames == {temp_filename, csv_filename, LAST_CSV_PATH}

Absent == <<>>
File(lines) == <<lines>>
Exists(f) == Len(f) > 0
Content(f) == f[1]

\* the bytes a write leaves below its offset in a file that was cut shorter
Hole == <<"<NUL>">>

RECURSIVE Holes(_)
Holes(n) == IF n <= 0 THEN <<>> ELSE <<Hole>> \o Holes(n - 1)

\* write(line) at line offset off: overwrites, or extends past the end
WriteAt(lines, off, line) ==
    IF off < Len(lines)
    THEN [lines EXCEPT ![off + 1] = line]
    ELSE lines \o Holes(off - Len(lines)) \o <<line>>

\* writer.writerow(["SKU", "Name", "Stock", "Price"])
Header == <<"SKU", "Name", "Stock", "Price">>

SnapshotLineNoStock(p) == <<p.sku, p.name, "", FloatStr(p.price)>>

\* writer.writerow([p.sku, p.name, p.stock, p.price])
SnapshotLine(p) == <<p.sku, p.name, IntStr(p.stock), FloatStr(p.price)>>

\* the lines export_csv writes for the rows it read
Serialize(ps) == <<Header>> \o [i \in DOMAIN ps |-> SnapshotLine(ps[i])]

\* ----------------------------------------------------------------- export_csv
Workers == {1, 2}
Idle(w) == pc[w] = "idle"
Quiescent == \A w \in Workers : Idle(w)

\* products = Product.query.all(); open(temp_filename, mode="w"), which
\* creates the file or cuts the existing one to length 0.  The request has no
\* answer yet.
ExportBegin(w) ==
    /\ Idle(w)
    /\ snap' = [snap EXCEPT ![w] = products]
    /\ fs' = [fs EXCEPT ![temp_filename] = File(<<>>)]
    /\ fd' = [fd EXCEPT ![w] = [target |-> temp_filename, off |-> 0]]
    /\ pc' = [pc EXCEPT ![w] = "write"]
    /\ resp' = Response("pending", <<>>)
    /\ UNCHANGED <<products, exports, cmp, opsSince, lastGood>>

\* one writerow reaching the file the descriptor points at; a descriptor whose
\* file was unlinked or replaced writes to a file no name leads to
ExportWriteRow(w) ==
    /\ pc[w] = "write"
    /\ fd[w].off < Len(Serialize(snap[w]))
    /\ LET line == Serialize(snap[w])[fd[w].off + 1]
           name == fd[w].target
       IN  fs' = IF name \in FileNames /\ Exists(fs[name])
                 THEN [fs EXCEPT ![name] = File(WriteAt(Content(fs[name]), fd[w].off, line))]
                 ELSE fs
    /\ fd' = [fd EXCEPT ![w].off = @ + 1]
    /\ UNCHANGED <<products, resp, exports, pc, snap, cmp, opsSince, lastGood>>

\* leaving the with block closes the file
ExportClose(w) ==
    /\ pc[w] = "write"
    /\ fd[w].off = Len(Serialize(snap[w]))
    /\ fd' = [fd EXCEPT ![w] = [target |-> "closed", off |-> 0]]
    /\ pc' = [pc EXCEPT ![w] = "replace"]
    /\ UNCHANGED <<products, resp, exports, fs, snap, cmp, opsSince, lastGood>>

\* where the open descriptors point once name new has taken the place of old
Retarget(f, old, new) ==
    [w \in Workers |->
        IF f[w].target = old THEN [f[w] EXCEPT !.target = new]
        ELSE IF f[w].target = new THEN [f[w] EXCEPT !.target = "unlinked"]
        ELSE f[w]]

\* os.replace(temp_filename, csv_filename) succeeds
ExportReplace(w) ==
    /\ pc[w] = "replace"
    /\ Exists(fs[temp_filename])
    /\ fs' = [fs EXCEPT ![csv_filename] = fs[temp_filename], ![temp_filename] = Absent]
    /\ fd' = Retarget(fd, temp_filename, csv_filename)
    /\ pc' = [pc EXCEPT ![w] = "compare"]
    /\ UNCHANGED <<products, resp, exports, snap, cmp, opsSince, lastGood>>

ExportReplaceLockedKeepsTemp(w) ==
    /\ pc[w] = "replace"
    /\ Exists(fs[temp_filename])
    /\ pc' = [pc EXCEPT ![w] = "idle"]
    /\ snap' = [snap EXCEPT ![w] = <<>>]
    /\ resp' = Response("snapshot_locked", <<>>)
    /\ UNCHANGED <<products, exports, fs, fd, cmp, opsSince, lastGood>>

\* os.replace raises PermissionError (the destination is held open by another
\* program): os.remove(temp_filename) and the "Cannot update CSV" page
ExportReplaceLocked(w) ==
    /\ pc[w] = "replace"
    /\ Exists(fs[temp_filename])
    /\ fs' = [fs EXCEPT ![temp_filename] = Absent]
    /\ fd' = Retarget(fd, temp_filename, "unlinked")
    /\ pc' = [pc EXCEPT ![w] = "idle"]
    /\ snap' = [snap EXCEPT ![w] = <<>>]
    /\ resp' = Response("snapshot_locked", <<>>)
    /\ UNCHANGED <<products, exports, cmp, opsSince, lastGood>>

\* os.replace raises FileNotFoundError, which nothing catches
ExportReplaceMissing(w) ==
    /\ pc[w] = "replace"
    /\ ~Exists(fs[temp_filename])
    /\ pc' = [pc EXCEPT ![w] = "idle"]
    /\ snap' = [snap EXCEPT ![w] = <<>>]
    /\ resp' = Response("server_error", <<>>)
    /\ UNCHANGED <<products, exports, fs, fd, cmp, opsSince, lastGood>>

QuickCompareInverted(old, new) ==
    IF ~Exists(old) THEN "FIRST_EXPORT"
    ELSE IF Content(new) = Content(old) THEN "CHANGES_DETECTED"
    ELSE "NO_CHANGES"

\* the comparison of inventory.csv with last_inventory.csv; both are read in
\* text mode, so the line ends of both arrive as the same character
QuickCompare(old, new) ==
    IF ~Exists(old) THEN "FIRST_EXPORT"
    ELSE IF Content(new) = Content(old) THEN "NO_CHANGES"
    ELSE "CHANGES_DETECTED"

ExportCompare(w) ==
    /\ pc[w] = "compare"
    /\ cmp' = [cmp EXCEPT ![w] = QuickCompare(fs[LAST_CSV_PATH], fs[csv_filename])]
    /\ pc' = [pc EXCEPT ![w] = "save"]
    /\ UNCHANGED <<products, resp, exports, fs, fd, snap, opsSince, lastGood>>

\* last_file.write(open(csv_filename).read()), and the success page
ExportSave(w) ==
    /\ pc[w] = "save"
    /\ fs' = [fs EXCEPT ![LAST_CSV_PATH] = fs[csv_filename]]
    /\ resp' = Response("exported", <<cmp[w]>>)
    /\ pc' = [pc EXCEPT ![w] = "idle"]
    /\ cmp' = [cmp EXCEPT ![w] = ""]
    /\ snap' = [snap EXCEPT ![w] = <<>>]
    /\ opsSince' = FALSE
    /\ lastGood' = <<snap[w]>>
    /\ UNCHANGED <<products, exports, fd>>

\* the request dies inside export_csv (the process is killed, the client is
\* gone): whatever it wrote stays
Interrupt(w) ==
    /\ pc[w] \in {"write", "replace", "compare", "save"}
    /\ pc' = [pc EXCEPT ![w] = "idle"]
    /\ fd' = [fd EXCEPT ![w] = [target |-> "closed", off |-> 0]]
    /\ cmp' = [cmp EXCEPT ![w] = ""]
    /\ snap' = [snap EXCEPT ![w] = <<>>]
    /\ resp' = Response("interrupted", <<>>)
    /\ UNCHANGED <<products, exports, fs, opsSince, lastGood>>

Export(w) ==
    \/ ExportBegin(w)
    \/ ExportWriteRow(w)
    \/ ExportClose(w)
    \/ ExportReplace(w)
    \/ ExportReplaceLocked(w)
    \/ ExportCompare(w)
    \/ ExportSave(w)

\* -------------------------------------------------------- download_latest_csv
\* sorted(names, reverse=True); a name is modelled by the number of its
\* timestamp, so the order of the names is the order of the numbers
RECURSIVE SortedReverse(_)
SortedReverse(S) ==
    IF S = {} THEN <<>>
    ELSE LET m == CHOOSE x \in S : \A y \in S : x >= y
         IN  <<m>> \o SortedReverse(S \ {m})

\* any(row): some field is a non-empty string
AnyField(row) == \E i \in DOMAIN row : row[i] # ""

\* the row a snapshot that has no row at this position is given
Placeholder == <<"", "", "", "">>

RowStatusSwapped(prev_row, curr_row) ==
    IF Len(prev_row) > 0 /\ Len(curr_row) > 0 /\ Len(prev_row) >= 4 /\ Len(curr_row) >= 4
    THEN IF prev_row # curr_row
         THEN IF prev_row[3] # curr_row[3] \/ prev_row[4] # curr_row[4]
              THEN "UPDATED"
              ELSE "CHANGED"
         ELSE "UNCHANGED"
    ELSE IF AnyField(curr_row) THEN "NEW"
    ELSE IF AnyField(prev_row) THEN "REMOVED"
    ELSE ""

\* the if / elif chain that sets status
RowStatus(prev_row, curr_row) ==
    IF Len(prev_row) > 0 /\ Len(curr_row) > 0 /\ Len(prev_row) >= 4 /\ Len(curr_row) >= 4
    THEN IF prev_row # curr_row
         THEN IF prev_row[3] # curr_row[3] \/ prev_row[4] # curr_row[4]
              THEN "CHANGED"
              ELSE "UPDATED"
         ELSE "UNCHANGED"
    ELSE IF AnyField(curr_row) THEN "NEW"
    ELSE IF AnyField(prev_row) THEN "REMOVED"
    ELSE ""

CompareHeader ==
    <<"Previous SKU", "Previous Name", "Previous Stock", "Previous Price",
      "Current SKU", "Current Name", "Current Stock", "Current Price", "Status">>

\* the rows written after the header: prev_row + curr_row + [status]
CompareRows(previous_data, current_data) ==
    [i \in 1 .. Max(Len(previous_data), Len(current_data)) |->
        LET prev_row == IF i <= Len(previous_data) THEN previous_data[i] ELSE Placeholder
            curr_row == IF i <= Len(current_data) THEN current_data[i] ELSE Placeholder
        IN  prev_row \o curr_row \o <<RowStatus(prev_row, curr_row)>>]

\* current_data: the rows of csv_files[0], if there is one
CurrentData(dir) ==
    LET csv_files == SortedReverse(DOMAIN dir)
    IN  IF Len(csv_files) > 0 THEN dir[csv_files[1]] ELSE <<>>

\* previous_data: the rows of csv_files[1], if there is one
PreviousData(dir) ==
    LET csv_files == SortedReverse(DOMAIN dir)
    IN  IF Len(csv_files) > 1 THEN dir[csv_files[2]] ELSE <<>>

DownloadLatestCsv ==
    /\ resp' = Response("compare",
                        <<CompareHeader>> \o CompareRows(PreviousData(exports),
                                                          CurrentData(exports)))
    /\ UNCHANGED <<products, opsSince>>
    /\ FilesUntouched

\* ------------------------------------------------------------------------------
vars == <<products, resp, fs, exports, pc, snap, fd, cmp, opsSince, lastGood>>

NoFiles == [n \in FileNames |-> Absent]
EmptyDir == <<>>

\* no request is being served; the working directory holds no export yet
AtRest ==
    /\ resp = Response("start", <<>>)
    /\ fs = NoFiles
    /\ pc = [w \in Workers |-> "idle"]
    /\ snap = [w \in Workers |-> <<>>]
    /\ fd = [w \in Workers |-> [target |-> "closed", off |-> 0]]
    /\ cmp = [w \in Workers |-> ""]
    /\ opsSince = FALSE
    /\ lastGood = <<>>

Stores(rows) ==
    {s \in UNION {[1 .. n -> rows] : n \in 1 .. Cardinality(Skus)} : UniqueSkus(s)}

\* init_db seeds the table only when it is empty, and inventory.db outlives the
\* process: the table at start-up is never empty, and holds rows with the
\* non-negative stock the seed rows have.
StartProduct ==
    {NewProduct(sku, name, desc, price, stock, thresh) :
        sku \in Skus, name \in Names, desc \in Descriptions, price \in PriceInputs,
        stock \in {IntStr(n) : n \in 0 .. MaxStock}, thresh \in ThresholdInputs}

Init ==
    /\ products \in Stores(StartProduct)
    /\ exports = EmptyDir
    /\ AtRest

\* the store and its handlers, one request at a time
Next ==
    \/ \E sku \in Skus, name \in Names, desc \in Descriptions, price \in PriceInputs,
          stock \in StockInputs, thresh \in ThresholdInputs :
            AddProduct(sku, name, desc, price, stock, thresh)
    \/ \E id \in DOMAIN products, sku \in Skus, name \in Names, desc \in Descriptions,
          price \in PriceInputs, stock \in StockInputs, thresh \in ThresholdInputs :
            EditProduct(id, sku, name, desc, price, stock, thresh)
    \/ \E id \in DOMAIN products : DeleteProduct(id)
    \/ \E id \in DOMAIN products, adjust \in AdjInputs : AdjustStock(id, adjust)
    \/ NotFound
    \/ LowStock

Spec == Init /\ [][Next]_vars

\* ------------------------------------------------- exports, one request at a time
\* the forms of this specification leave price and threshold to one value each
ExportPriceInputs == {"2"}
ExportThresholdInputs == {""}
ExportStockInputs == {""} \cup {IntStr(n) : n \in 1 .. MaxStock}
ExportAdjInputs == {"-1", "1"}

ExportStartProduct ==
    {NewProduct(sku, name, desc, price, stock, thresh) :
        sku \in Skus, name \in Names, desc \in Descriptions, price \in ExportPriceInputs,
        stock \in ExportStockInputs, thresh \in ExportThresholdInputs}

InitExport ==
    /\ products \in Stores(ExportStartProduct)
    /\ exports = EmptyDir
    /\ AtRest

\* a request is taken up only when the one before it has been answered
NextExport ==
    \/ \E sku \in Skus, name \in Names, desc \in Descriptions,
          price \in ExportPriceInputs, stock \in ExportStockInputs,
          thresh \in ExportThresholdInputs :
            Quiescent /\ AddProduct(sku, name, desc, price, stock, thresh)
    \/ \E id \in DOMAIN products, sku \in Skus, name \in Names, desc \in Descriptions,
          price \in ExportPriceInputs, stock \in ExportStockInputs,
          thresh \in ExportThresholdInputs :
            Quiescent /\ EditProduct(id, sku, name, desc, price, stock, thresh)
    \/ \E id \in DOMAIN products : Quiescent /\ DeleteProduct(id)
    \/ \E id \in DOMAIN products, adjust \in ExportAdjInputs :
            Quiescent /\ AdjustStock(id, adjust)
    \/ Quiescent /\ DownloadLatestCsv
    \/ Export(1)

SpecExport == InitExport /\ [][NextExport]_vars

\* ------------------------------------------- two export requests served at once
ConcStartProduct ==
    {NewProduct(sku, name, desc, price, "1", thresh) :
        sku \in Skus, name \in Names, desc \in Descriptions, price \in ExportPriceInputs,
        thresh \in ExportThresholdInputs}

InitConc ==
    /\ products \in Stores(ConcStartProduct)
    /\ exports = EmptyDir
    /\ AtRest

NextConc ==
    \/ \E w \in Workers : Export(w)
    \/ \E w \in Workers : ExportReplaceMissing(w)
    \/ \E w \in Workers : Interrupt(w)
    \/ \E id \in DOMAIN products : DeleteProduct(id)

SpecConc == InitConc /\ [][NextConc]_vars

\* ------------------------------------- the diff over a populated exports directory
MaxRows == 2        \* most product rows in one historical snapshot

Row(sku, name, stock, price) ==
    [sku |-> sku, name |-> name, description |-> "d", price |-> price,
     stock |-> stock, reorder_threshold |-> DefaultThreshold]

ProductA == Row("A", "a", 5, 10)
ProductB == Row("B", "b", 2, 20)
ProductC == Row("C", "c", 1, 30)
ProductARenamed == Row("A", "a2", 5, 10)

\* the lines a historical file may hold: product rows, a blank line (which
\* csv.reader yields as []), and a row with too few columns
DiffLines ==
    {SnapshotLine(p) : p \in {ProductA, ProductB, ProductC, ProductARenamed}}
        \cup {<<>>, <<"A">>}

DiffFiles ==
    {<<>>} \cup {<<Header>> \o body :
                    body \in UNION {[1 .. n -> DiffLines] : n \in 0 .. MaxRows}}

\* a file older than the two newest
OlderFiles == {<<Header>>, Serialize(<<ProductC>>)}

\* the files of at most one row
ShortFiles == {f \in DiffFiles : Len(f) <= 2}

\* the directory as someone filled it: no file, one, two, or three, under names
\* whose order is 1 < 2 < 3
DiffDirs ==
    {EmptyDir}
        \cup {<<cur>> : cur \in DiffFiles}
        \cup {<<prev, cur>> : prev \in DiffFiles, cur \in DiffFiles}
        \cup {<<old, prev, cur>> : old \in OlderFiles, prev \in ShortFiles, cur \in ShortFiles}

InitDiff ==
    /\ products = <<CHOOSE p \in ConcStartProduct : p.sku = "A">>
    /\ exports \in DiffDirs
    /\ AtRest

NextDiff == DownloadLatestCsv

SpecDiff == InitDiff /\ [][NextDiff]_vars

\* =========================================================================
\* Properties
\* =========================================================================

\* C1: after adjust(productId, delta, reason) the product's stock is
\* max(0, stockBefore + delta): a decrease larger than the stock leaves 0.
C1_AdjustClampsAtZero ==
    resp.kind = "adjusted" =>
        LET id == resp.body[1]
            delta == resp.body[2]
            stockBefore == resp.body[3]
        IN  products[id].stock = (IF stockBefore + delta < 0 THEN 0 ELSE stockBefore + delta)

\* C1 witness: a decrease larger than the stock was applied and left 0
C1_Witness ==
    /\ resp.kind = "adjusted"
    /\ resp.body[3] > 0
    /\ resp.body[3] + resp.body[2] < 0
    /\ products[resp.body[1]].stock = 0

\* C2: every stored product has stock >= 0 in every reachable state.
C2_StockNeverNegative == \A i \in DOMAIN products : products[i].stock >= 0

\* C3: a create or update whose target SKU another product holds fails with
\* the duplicate-SKU error and leaves every stored product as it was; no two
\* stored products ever share a SKU.
C3_DuplicateSkuLeavesStore ==
    [][/\ resp'.kind = "duplicate_sku" => products' = products
       /\ resp'.kind = "added" =>
            \A i \in DOMAIN products : products[i].sku # products'[Len(products')].sku
       /\ resp'.kind = "updated" =>
            \A i \in DOMAIN products :
                i # resp'.body[1] => products[i].sku # products'[resp'.body[1]].sku
       /\ \A i, j \in DOMAIN products' :
            products'[i].sku = products'[j].sku => i = j]_vars

\* C3 witness: an edit of one of two products to the other's SKU was refused
C3_Witness ==
    /\ resp.kind = "duplicate_sku"
    /\ resp.body[1] = "edit"
    /\ Len(products) = 2
    /\ \E i \in DOMAIN products : products[i].sku = resp.body[2]

\* C8: lowStock() returns exactly the products with stock <= reorder_threshold,
\* the boundary stock = reorder_threshold included, in ascending order of stock.
C8_LowStockExactAndSorted ==
    resp.kind = "low_stock" =>
        /\ \A i \in DOMAIN products :
              (products[i].stock <= products[i].reorder_threshold)
                  <=> (\E k \in DOMAIN resp.body : resp.body[k] = products[i])
        /\ \A k \in DOMAIN resp.body : \E i \in DOMAIN products : resp.body[k] = products[i]
        /\ \A k, l \in DOMAIN resp.body : k # l => resp.body[k] # resp.body[l]
        /\ \A k \in DOMAIN resp.body :
              k + 1 \in DOMAIN resp.body => resp.body[k].stock <= resp.body[k + 1].stock

\* C8 witness: the product whose stock equals its threshold is listed, the
\* one above its threshold is not
C8_Witness ==
    /\ resp.kind = "low_stock"
    /\ Len(resp.body) = 1
    /\ resp.body[1].stock = resp.body[1].reorder_threshold
    /\ \E i \in DOMAIN products : products[i].stock > products[i].reorder_threshold

\* C4: an export that follows a successful export, with no product created,
\* edited, adjusted or deleted in between, reports NO_CHANGES.
C4_SecondExportNoChanges ==
    \A w \in Workers :
        (pc[w] = "save" /\ lastGood # <<>> /\ ~opsSince) => cmp[w] = "NO_CHANGES"

\* C4 witness: such a second export has made its comparison
C4_Witness ==
    /\ pc[1] = "save"
    /\ lastGood # <<>>
    /\ ~opsSince
    /\ Len(snap[1]) = 2

\* exactly one product's stock differs between the two stores
OneStockChanged(before, after) ==
    /\ Len(before) = Len(after)
    /\ \E i \in DOMAIN before :
          /\ before[i].stock # after[i].stock
          /\ after[i] = [before[i] EXCEPT !.stock = after[i].stock]
          /\ \A j \in DOMAIN before : j # i => before[j] = after[j]

\* C5: an export that follows a successful export, with exactly one product's
\* stock changed to a different value in between, reports CHANGES_DETECTED;
\* FIRST_EXPORT is reported only when no earlier successful export left a
\* reference copy.
C5_StockChangeDetected ==
    \A w \in Workers :
        pc[w] = "save" =>
            /\ (lastGood # <<>> /\ OneStockChanged(lastGood[1], snap[w]))
                  => cmp[w] = "CHANGES_DETECTED"
            /\ cmp[w] = "FIRST_EXPORT" => (lastGood = <<>> /\ ~Exists(fs[LAST_CSV_PATH]))

\* C5 witness: the second export compares after one stock of two changed
C5_Witness ==
    /\ pc[1] = "save"
    /\ lastGood # <<>>
    /\ Len(snap[1]) = 2
    /\ OneStockChanged(lastGood[1], snap[1])

\* the status column of the comparison row at position i
StatusAt(i) == resp.body[i + 1][Len(resp.body[i + 1])]

\* the newest and the second newest file of the directory, by name
Newest == IF Len(exports) > 0 THEN exports[Len(exports)] ELSE <<>>
SecondNewest == IF Len(exports) > 1 THEN exports[Len(exports) - 1] ELSE <<>>

\* C6: a position with a current row and no previous row has status NEW, one
\* with a previous row and no current row has status REMOVED; with one
\* historical snapshot every row is NEW, with none there are no rows.
C6_MissingRowIsNewOrRemoved ==
    resp.kind = "compare" =>
        /\ Len(resp.body) = 1 + Max(Len(SecondNewest), Len(Newest))
        /\ \A i \in 1 .. Len(resp.body) - 1 :
              /\ (i > Len(SecondNewest) /\ i <= Len(Newest)) => StatusAt(i) = "NEW"
              /\ (i <= Len(SecondNewest) /\ i > Len(Newest)) => StatusAt(i) = "REMOVED"

\* a row of a snapshot: its four fields
WellFormed(row) == Len(row) = 4

\* C9: rows are paired by position; where both rows are present the status is
\* UNCHANGED when all four fields are equal, CHANGED when stock or price
\* differ, UPDATED when only SKU or name differ.  Snapshots of [A, B] and then
\* of [A, C] give UNCHANGED for A/A and CHANGED for B/C.
C9_PositionalStatus ==
    resp.kind = "compare" =>
        /\ \A i \in 1 .. Len(resp.body) - 1 :
              (i <= Len(SecondNewest) /\ i <= Len(Newest)
                    /\ WellFormed(SecondNewest[i]) /\ WellFormed(Newest[i])) =>
                 LET prev == SecondNewest[i]
                     curr == Newest[i]
                 IN  /\ SubSeq(resp.body[i + 1], 1, 4) = prev
                     /\ SubSeq(resp.body[i + 1], 5, 8) = curr
                     /\ (prev = curr) => StatusAt(i) = "UNCHANGED"
                     /\ (prev[3] # curr[3] \/ prev[4] # curr[4]) => StatusAt(i) = "CHANGED"
                     /\ (prev # curr /\ prev[3] = curr[3] /\ prev[4] = curr[4])
                            => StatusAt(i) = "UPDATED"
        /\ (/\ SecondNewest = Serialize(<<ProductA, ProductB>>)
            /\ Newest = Serialize(<<ProductA, ProductC>>)) =>
                 /\ StatusAt(2) = "UNCHANGED"
                 /\ StatusAt(3) = "CHANGED"

\* C9 witness: the diff of the snapshots of [A, B] and of [A, C]
C9_Witness ==
    /\ resp.kind = "compare"
    /\ SecondNewest = Serialize(<<ProductA, ProductB>>)
    /\ Newest = Serialize(<<ProductA, ProductC>>)
    /\ StatusAt(3) = "CHANGED"

\* the snapshots any export of the concurrent specification can have read
ReadableStores == Stores(ConcStartProduct) \cup {<<>>}

\* C7: the current snapshot file is absent or the complete serialization of
\* the products one export read, whether an export is interrupted or two
\* exports run at once.
C7_SnapshotAlwaysComplete ==
    Exists(fs[csv_filename]) =>
        \E s \in ReadableStores : Content(fs[csv_filename]) = Serialize(s)

\* C10: a successful export leaves its content in the exports directory, where
\* the diff finds it.
C10_ExportIsRecorded ==
    resp.kind = "exported" =>
        \E n \in DOMAIN exports : exports[n] = Content(fs[csv_filename])

\* the reference copy is the one the last successful export left
ReferenceIsLastGood ==
    fs[LAST_CSV_PATH] = IF lastGood = <<>> THEN Absent ELSE File(Serialize(lastGood[1]))

\* C11: when the rename fails because the destination is locked, the export
\* ends with the snapshot-locked error, the temporary file is gone, and the
\* snapshot file and the reference copy are unchanged; the reference copy a
\* later export compares against is that of the last successful export.
C11_LockedRenameLeavesState ==
    [][/\ \A w \in Workers :
            (pc[w] = "replace" /\ pc'[w] = "idle") =>
                /\ resp'.kind = "snapshot_locked"
                /\ ~Exists(fs'[temp_filename])
                /\ fs'[csv_filename] = fs[csv_filename]
                /\ fs'[LAST_CSV_PATH] = fs[LAST_CSV_PATH]
                /\ products' = products
       /\ ReferenceIsLastGood'
       /\ \A w \in Workers :
            pc'[w] = "save" =>
                cmp'[w] = IF lastGood' = <<>> THEN "FIRST_EXPORT"
                          ELSE IF Serialize(snap'[w]) = Serialize(lastGood'[1])
                               THEN "NO_CHANGES"
                               ELSE "CHANGES_DETECTED"]_vars

\* C11 witness: after a successful export and a committed change, an export
\* was refused at the rename; the snapshot and the reference copy are still
\* those of the successful export
C11_Witness ==
    /\ resp.kind = "snapshot_locked"
    /\ lastGood # <<>>
    /\ opsSince
    /\ ~Exists(fs[temp_filename])
    /\ fs[csv_filename] = File(Serialize(lastGood[1]))
    /\ fs[csv_filename] # File(Serialize(products))

====
